---- MODULE Spec2Model ----
(***************************************************************************)
(* Linkage resolution of move-package-alt: PackageGraph::linkage and       *)
(* PackageGraph::overrides (graph/linkage.rs) over a package graph whose   *)
(* nodes own Packages (package/package_impl.rs).                           *)
(*                                                                         *)
(* The graph is the input: it is chosen in Init and never changes.  One    *)
(* call of linkage is run as three kinds of steps: the topological sort,   *)
(* one step per node of the reverse order, and the final return.  A panic  *)
(* (unwrap / expect / index out of range) is an outcome of its own,        *)
(* kind "panic", distinct from every LinkageError.                         *)
(***************************************************************************)
EXTENDS Naturals, Sequences, FiniteSets

VARIABLES
    nodeCount,      \* number of nodes of self.inner; NodeIndex = 0 .. nodeCount-1
    edges,          \* edges of self.inner in insertion order: [source, target, weight]
    declared,       \* node -> manifest.environments().contains_key(env)
    publication,    \* node -> package.publication(env): None or [original_id, published_at]
    overrideNames,  \* node -> names n of direct_deps(env) with dep.is_override()
    pc,             \* position inside linkage: "toposort", "loop", "done"
    sorted,         \* local `sorted` of linkage
    todo,           \* number of nodes of sorted.iter().rev() still to visit
    linkages,       \* local `linkages`: node -> LinkageTable
    result,         \* what the current call returned (or NoResult)
    calls,          \* number of calls of linkage started on this graph
    previous        \* result of the call before the current one (or NoResult)

graph == <<nodeCount, edges, declared, publication, overrideNames>>
vars == <<nodeCount, edges, declared, publication, overrideNames,
          pc, sorted, todo, linkages, result, calls, previous>>

----
(* Bounds of the model *)

MaxNodes == 3
MaxMarks == 2
MaxStem == 1
MaxCalls == 2

OriginalIDOrder == <<"id1", "id2">>
Addresses == {"addr1", "addr2"}

----
(* Values *)

None == [none |-> TRUE]
NoResult == [kind |-> "none"]
EmptyTable == [id \in {} |-> None]

Nodes == 0 .. (nodeCount - 1)

Range(s) == {s[i] : i \in 1 .. Len(s)}

Reverse(s) == [i \in 1 .. Len(s) |-> s[Len(s) + 1 - i]]

OriginalIDs == Range(OriginalIDOrder)

Ok(table) == [kind |-> "Ok", table |-> table]

Panic(message, node) == [kind |-> "panic", message |-> message, node |-> node]

CyclicDependencies(node) == [kind |-> "CyclicDependencies", node |-> node]

InconsistentLinkage(root, node1, node2) ==
    [kind |-> "InconsistentLinkage", root |-> root, node1 |-> node1, node2 |-> node2]

MultipleImplementations(root, node1, node2) ==
    [kind |-> "MultipleImplementations", root |-> root, node1 |-> node1, node2 |-> node2]

----
(* petgraph accessors of self.inner.  A Graph keeps, per node, a linked list *)
(* of its edges with the newest edge first, so edges(n) and neighbors(n)     *)
(* walk the edges of n in the reverse of their insertion order.              *)

edgesOf(node) == Reverse(SelectSeq(edges, LAMBDA e : e.source = node))

neighbors(node) == [i \in 1 .. Len(edgesOf(node)) |-> edgesOf(node)[i].target]

edgesInto(node) == Reverse(SelectSeq(edges, LAMBDA e : e.target = node))

\* neighbors of Reversed(&self.inner): the sources of the incoming edges
neighborsReversed(node) == [i \in 1 .. Len(edgesInto(node)) |-> edgesInto(node)[i].source]

----
(* Vocabulary of the properties: the edge relation and its cycles, stated    *)
(* without the sort                                                          *)

EdgePairs == {<<e.source, e.target>> : e \in Range(edges)}

Successors(S) == {e.target : e \in {f \in Range(edges) : f.source \in S}}

\* the nodes reached from the nodes of S over one or more edges
RECURSIVE ReachedFrom(_, _)
ReachedFrom(S, seen) ==
    LET more == Successors(S) \ seen IN
    IF more = {} THEN seen ELSE ReachedFrom(more, seen \cup more)

OnCycle(node) == node \in ReachedFrom({node}, {})

HasCycle == \E node \in Nodes : OnCycle(node)

----
(* petgraph::algo::toposort(&self.inner, None)                               *)

\* the inner `while let Some(&nx) = dfs.stack.last()` of the first pass
RECURSIVE dfsFinish(_, _, _, _)
dfsFinish(stack, discovered, finished, finish_stack) ==
    IF stack = <<>>
    THEN [cycle |-> FALSE, discovered |-> discovered, finished |-> finished,
          finish_stack |-> finish_stack]
    ELSE LET nx == stack[Len(stack)] IN
         IF nx \notin discovered
         THEN \* first visit: push the undiscovered successors, keep nx
              IF nx \in Range(neighbors(nx))
              THEN [cycle |-> TRUE, node |-> nx]
              ELSE dfsFinish(stack \o SelectSeq(neighbors(nx),
                                                LAMBDA succ : succ \notin discovered),
                             discovered \cup {nx}, finished, finish_stack)
         ELSE \* second visit: pop, and finish nx once
              dfsFinish(SubSeq(stack, 1, Len(stack) - 1), discovered,
                        finished \cup {nx},
                        IF nx \in finished THEN finish_stack
                                           ELSE Append(finish_stack, nx))

\* the outer `for i in g.node_identifiers()` of the first pass, from node i on
RECURSIVE finishFrom(_, _, _, _)
finishFrom(i, discovered, finished, finish_stack) ==
    IF i >= nodeCount
    THEN [cycle |-> FALSE, finish_stack |-> finish_stack]
    ELSE IF i \in discovered
    THEN finishFrom(i + 1, discovered, finished, finish_stack)
    ELSE LET r == dfsFinish(<<i>>, discovered, finished, finish_stack) IN
         IF r.cycle THEN r
         ELSE finishFrom(i + 1, r.discovered, r.finished, r.finish_stack)

\* Dfs::next on the reversed graph: pop until an undiscovered node is found
RECURSIVE dfsNext(_, _)
dfsNext(stack, discovered) ==
    IF stack = <<>>
    THEN [found |-> FALSE, stack |-> stack, discovered |-> discovered]
    ELSE LET node == stack[Len(stack)]
             rest == SubSeq(stack, 1, Len(stack) - 1) IN
         IF node \notin discovered
         THEN [found |-> TRUE, node |-> node,
               stack |-> rest \o SelectSeq(neighborsReversed(node),
                             LAMBDA succ : succ \notin discovered \cup {node}),
               discovered |-> discovered \cup {node}]
         ELSE dfsNext(rest, discovered)

\* the second pass: `for &i in &finish_stack`, from position k on; the first
\* dfs.next after move_to(i) yields a node, a second one that yields is a cycle
RECURSIVE checkOrder(_, _, _)
checkOrder(order, k, discovered) ==
    IF k > Len(order)
    THEN [cycle |-> FALSE]
    ELSE LET first == dfsNext(<<order[k]>>, discovered) IN
         IF ~first.found
         THEN checkOrder(order, k + 1, first.discovered)
         ELSE LET second == dfsNext(first.stack, first.discovered) IN
              IF second.found
              THEN [cycle |-> TRUE, node |-> second.node]
              ELSE checkOrder(order, k + 1, second.discovered)

\* toposort without its second pass: the finish order is taken for granted
toposortFirstPassOnly ==
    LET pass1 == finishFrom(0, {}, {}, <<>>) IN
    IF pass1.cycle
    THEN [ok |-> FALSE, node |-> pass1.node]
    ELSE [ok |-> TRUE, order |-> Reverse(pass1.finish_stack)]

\* toposort without `finish_stack.reverse()`: the order of finishing is returned
toposortFinishOrder ==
    LET pass1 == finishFrom(0, {}, {}, <<>>) IN
    IF pass1.cycle
    THEN [ok |-> FALSE, node |-> pass1.node]
    ELSE LET pass2 == checkOrder(Reverse(pass1.finish_stack), 1, {}) IN
         IF pass2.cycle
         THEN [ok |-> FALSE, node |-> pass2.node]
         ELSE [ok |-> TRUE, order |-> pass1.finish_stack]

toposort ==
    LET pass1 == finishFrom(0, {}, {}, <<>>) IN
    IF pass1.cycle
    THEN [ok |-> FALSE, node |-> pass1.node]
    ELSE LET order == Reverse(pass1.finish_stack)
             pass2 == checkOrder(order, 1, {}) IN
         IF pass2.cycle
         THEN [ok |-> FALSE, node |-> pass2.node]
         ELSE [ok |-> TRUE, order |-> order]

----
(* Package::direct_deps, PackageGraph::overrides and the merge loop          *)

\* direct_deps without the restriction of lines 136-141: a manifest that does
\* not declare env has no dependencies in it
directDepsLenient(node) ==
    [ok |-> TRUE, overrides |-> IF declared[node] THEN overrideNames[node] ELSE {}]

\* Package::direct_deps(env) of the package of `node`: an Err unless the
\* manifest declares env; the Ok value is reduced to the names flagged override
direct_deps(node) ==
    IF ~declared[node]
    THEN [ok |-> FALSE]
    ELSE [ok |-> TRUE, overrides |-> overrideNames[node]]

insert(table, original_id, pkg) ==
    [id \in DOMAIN table \cup {original_id} |->
        IF id = original_id THEN pkg ELSE table[id]]

\* .collect() of the (original_id, target) pairs into a BTreeMap: a later pair
\* replaces an earlier one with the same key
RECURSIVE collect(_, _)
collect(pairs, table) ==
    IF pairs = <<>> THEN table
    ELSE collect(Tail(pairs), insert(table, Head(pairs).original_id, Head(pairs).pkg))

\* PackageGraph::overrides(env, node)
overrides(node) ==
    LET deps == direct_deps(node) IN
    IF ~deps.ok
    THEN Panic("direct_deps(env).unwrap()", node)
    ELSE LET flagged == SelectSeq(edgesOf(node), LAMBDA e : e.weight \in deps.overrides)
             unpublished == SelectSeq(flagged, LAMBDA e : publication[e.target] = None)
         IN  IF unpublished # <<>>
             THEN Panic("publication(env).expect(TODO)", node)
             ELSE Ok(collect([i \in 1 .. Len(flagged) |->
                                 [original_id |-> publication[flagged[i].target].original_id,
                                  pkg |-> flagged[i].target]],
                             EmptyTable))

\* iteration of a LinkageTable (a BTreeMap): entries in the order of the keys
iter(table) ==
    LET keys == SelectSeq(OriginalIDOrder, LAMBDA id : id \in DOMAIN table) IN
    [i \in 1 .. Len(keys) |-> [original_id |-> keys[i], pkg |-> table[keys[i]]]]

\* lines 83-86: neighbors(*node).flat_map(|n| linkages[&n].iter()), the entries
\* of the tables of `deps` one table after the other
RECURSIVE flat_map(_)
flat_map(deps) ==
    IF deps = <<>> THEN <<>>
    ELSE iter(linkages[Head(deps)]) \o flat_map(Tail(deps))

transitive_deps(node) == flat_map(neighbors(node))

\* the loop body with the `continue` the comment [*] of line 124 considers:
\* two packages published at the same address are not a conflict
RECURSIVE mergeEntriesKeepGoing(_, _, _, _)
mergeEntriesKeepGoing(node, overridden, entries, linkage) ==
    IF entries = <<>> THEN Ok(linkage)
    ELSE LET original_id == Head(entries).original_id
             pkg == Head(entries).pkg
             inserted == insert(linkage, original_id, pkg)
         IN
         IF original_id \notin DOMAIN linkage
         THEN mergeEntriesKeepGoing(node, overridden, Tail(entries), inserted)
         ELSE LET old_pkg == linkage[original_id] IN
              IF old_pkg = pkg
              THEN mergeEntriesKeepGoing(node, overridden, Tail(entries), inserted)
              ELSE IF original_id \in DOMAIN overridden
              THEN mergeEntriesKeepGoing(node, overridden, Tail(entries),
                                         insert(inserted, original_id, overridden[original_id]))
              ELSE IF publication[old_pkg] = None \/ publication[pkg] = None
              THEN Panic("publication(env).expect(unpublished)", node)
              ELSE IF publication[pkg].published_at = publication[old_pkg].published_at
              THEN mergeEntriesKeepGoing(node, overridden, Tail(entries), inserted)
              ELSE MultipleImplementations(node, old_pkg, pkg)

\* the loop body without line 106: on a collision the override map covers, the
\* node the entry brought stays recorded
RECURSIVE mergeEntriesKeepNew(_, _, _, _)
mergeEntriesKeepNew(node, overridden, entries, linkage) ==
    IF entries = <<>> THEN Ok(linkage)
    ELSE LET original_id == Head(entries).original_id
             pkg == Head(entries).pkg
             inserted == insert(linkage, original_id, pkg)
         IN
         IF original_id \notin DOMAIN linkage
         THEN mergeEntriesKeepNew(node, overridden, Tail(entries), inserted)
         ELSE LET old_pkg == linkage[original_id] IN
              IF old_pkg = pkg
              THEN mergeEntriesKeepNew(node, overridden, Tail(entries), inserted)
              ELSE IF original_id \in DOMAIN overridden
              THEN mergeEntriesKeepNew(node, overridden, Tail(entries), inserted)
              ELSE IF publication[old_pkg] = None \/ publication[pkg] = None
              THEN Panic("publication(env).expect(unpublished)", node)
              ELSE IF publication[pkg].published_at = publication[old_pkg].published_at
              THEN InconsistentLinkage(node, old_pkg, pkg)
              ELSE MultipleImplementations(node, old_pkg, pkg)

\* the body of `for (original_id, pkg) in transitive_deps` over `entries`
RECURSIVE mergeEntries(_, _, _, _)
mergeEntries(node, overridden, entries, linkage) ==
    IF entries = <<>> THEN Ok(linkage)
    ELSE LET original_id == Head(entries).original_id
             pkg == Head(entries).pkg
             inserted == insert(linkage, original_id, pkg)
         IN
         IF original_id \notin DOMAIN linkage
         THEN mergeEntries(node, overridden, Tail(entries), inserted)
         ELSE LET old_pkg == linkage[original_id] IN
              IF old_pkg = pkg
              THEN mergeEntries(node, overridden, Tail(entries), inserted)
              ELSE IF original_id \in DOMAIN overridden
              THEN mergeEntries(node, overridden, Tail(entries),
                                insert(inserted, original_id, overridden[original_id]))
              ELSE IF publication[old_pkg] = None \/ publication[pkg] = None
              THEN Panic("publication(env).expect(unpublished)", node)
              ELSE IF publication[pkg].published_at = publication[old_pkg].published_at
              THEN InconsistentLinkage(node, old_pkg, pkg)
              ELSE MultipleImplementations(node, old_pkg, pkg)

\* transitive_deps is lazy: the table of a neighbour is looked up (linkages[&n])
\* when the loop reaches its entries
RECURSIVE mergeNeighbors(_, _, _, _)
mergeNeighbors(node, overridden, deps, linkage) ==
    IF deps = <<>> THEN Ok(linkage)
    ELSE IF Head(deps) \notin DOMAIN linkages
    THEN Panic("linkages[&n]", node)
    ELSE LET r == mergeEntries(node, overridden, iter(linkages[Head(deps)]), linkage) IN
         IF r.kind # "Ok" THEN r
         ELSE mergeNeighbors(node, overridden, Tail(deps), r.table)

\* the override map of `node` extended by the override maps of `others`
overridesWith(node, others) ==
    LET own == overrides(node)
        maps == {overrides(m).table : m \in {n \in others : overrides(n).kind = "Ok"}}
        ids == UNION {DOMAIN t : t \in maps}
    IN  IF own.kind # "Ok" THEN own
        ELSE Ok([id \in DOMAIN own.table \cup ids |->
                    IF id \in DOMAIN own.table THEN own.table[id]
                    ELSE (CHOOSE t \in maps : id \in DOMAIN t)[id]])

\* the loop body with overrides that propagate to ancestors: the overrides of
\* the dependencies of `node` also decide the collisions of `node`
linkageOfWithOverridesBelow(node) ==
    LET overridden == overridesWith(node, ReachedFrom({node}, {})) IN
    IF overridden.kind # "Ok" THEN overridden
    ELSE mergeNeighbors(node, overridden.table, neighbors(node), EmptyTable)

\* the loop body with overrides that propagate to descendants: the overrides of
\* the nodes that depend on `node` also decide the collisions of `node`
linkageOfWithOverridesAbove(node) ==
    LET overridden == overridesWith(node, {n \in Nodes : node \in ReachedFrom({n}, {})}) IN
    IF overridden.kind # "Ok" THEN overridden
    ELSE mergeNeighbors(node, overridden.table, neighbors(node), EmptyTable)

\* the loop body with the TODO of line 140 done: a published node is added to
\* its own table
linkageOfWithSelf(node) ==
    LET overridden == overrides(node) IN
    IF overridden.kind # "Ok" THEN overridden
    ELSE LET r == mergeNeighbors(node, overridden.table, neighbors(node), EmptyTable) IN
         IF r.kind # "Ok" \/ publication[node] = None THEN r
         ELSE Ok(insert(r.table, publication[node].original_id, node))

\* one iteration of `for node in sorted.iter().rev()`: the table of `node`,
\* or the error or panic that ends the call
linkageOf(node) ==
    LET overridden == overrides(node) IN
    IF overridden.kind # "Ok" THEN overridden
    ELSE mergeNeighbors(node, overridden.table, neighbors(node), EmptyTable)

----
(* The steps of one call of linkage(env)                                     *)

\* line 77 over a sort that walks the nodes in no fixed order: the node a
\* cycle is reported at is any node of a cycle
ToposortAnyCycleNode ==
    /\ pc = "toposort"
    /\ LET r == toposort IN
       IF r.ok
       THEN /\ sorted' = r.order
            /\ todo' = Len(r.order)
            /\ linkages' = EmptyTable
            /\ pc' = "loop"
            /\ UNCHANGED result
       ELSE /\ \E node \in {n \in Nodes : OnCycle(n)} :
                  result' = CyclicDependencies(node)
            /\ pc' = "done"
            /\ UNCHANGED <<sorted, todo, linkages>>
    /\ UNCHANGED <<graph, calls, previous>>

Toposort ==
    /\ pc = "toposort"
    /\ LET r == toposort IN
       IF r.ok
       THEN /\ sorted' = r.order
            /\ todo' = Len(r.order)
            /\ linkages' = EmptyTable
            /\ pc' = "loop"
            /\ UNCHANGED result
       ELSE /\ result' = CyclicDependencies(r.node)
            /\ pc' = "done"
            /\ UNCHANGED <<sorted, todo, linkages>>
    /\ UNCHANGED <<graph, calls, previous>>

ProcessNode ==
    /\ pc = "loop"
    /\ todo > 0
    /\ LET node == sorted[todo]
           r == linkageOf(node) IN
       IF r.kind = "Ok"
       THEN /\ linkages' = insert(linkages, node, r.table)
            /\ todo' = todo - 1
            /\ UNCHANGED <<pc, result>>
       ELSE /\ result' = r
            /\ pc' = "done"
            /\ UNCHANGED <<linkages, todo>>
    /\ UNCHANGED <<graph, sorted, calls, previous>>

\* lines 145-147 over sorted.last(): the table of the node visited first
ReturnLast ==
    /\ pc = "loop"
    /\ todo = 0
    /\ result' = IF sorted = <<>> THEN Panic("sorted[0]", 0)
                 ELSE IF sorted[Len(sorted)] \notin DOMAIN linkages
                 THEN Panic("all linkages have been computed", sorted[Len(sorted)])
                 ELSE Ok(linkages[sorted[Len(sorted)]])
    /\ linkages' = [n \in DOMAIN linkages \ Range(SubSeq(sorted, Len(sorted), Len(sorted))) |->
                       linkages[n]]
    /\ pc' = "done"
    /\ UNCHANGED <<graph, sorted, todo, calls, previous>>

Return ==
    /\ pc = "loop"
    /\ todo = 0
    /\ result' = IF sorted = <<>> THEN Panic("sorted[0]", 0)
                 ELSE IF sorted[1] \notin DOMAIN linkages
                 THEN Panic("all linkages have been computed", sorted[1])
                 ELSE Ok(linkages[sorted[1]])
    /\ linkages' = [n \in DOMAIN linkages \ Range(SubSeq(sorted, 1, 1)) |-> linkages[n]]
    /\ pc' = "done"
    /\ UNCHANGED <<graph, sorted, todo, calls, previous>>

\* the caller resolves the same graph for the same environment once more
\* (a panic ends the process: there is no call after it)
CallAgain ==
    /\ pc = "done"
    /\ result.kind # "panic"
    /\ calls < MaxCalls
    /\ calls' = calls + 1
    /\ previous' = result
    /\ result' = NoResult
    /\ pc' = "toposort"
    /\ sorted' = <<>>
    /\ todo' = 0
    /\ linkages' = EmptyTable
    /\ UNCHANGED graph

Next == Toposort \/ ProcessNode \/ Return \/ CallAgain

----
(* The graphs linkage is called on                                           *)

\* the subsets of S with at most k elements
RECURSIVE UpTo(_, _)
UpTo(S, k) ==
    IF k = 0 THEN {{}}
    ELSE LET smaller == UpTo(S, k - 1) IN
         smaller \cup {T \cup {x} : T \in smaller, x \in S}

\* The graph is built from the root outward: node 0 is the root and every other
\* node i is first reached from a node parent[i] added before it, in breadth
\* first order.
Trees(n) ==
    {parent \in [1 .. (n - 1) -> 0 .. (n - 1)] :
        /\ \A i \in 1 .. (n - 1) : parent[i] < i
        /\ \A i, j \in 1 .. (n - 1) : i < j => parent[i] <= parent[j]}

TreeEdges(n, parent) == {<<parent[i], i>> : i \in 1 .. (n - 1)}

\* The diamond of the specification, hanging `stem` edges below the root:
\* D = node `stem` depends on A and B, A on L1, and B on L2 (or on L1 as well)
DiamondEdges(stem, shared) ==
    {<<i - 1, i>> : i \in 1 .. stem}
    \cup {<<stem, stem + 1>>, <<stem, stem + 2>>, <<stem + 1, stem + 3>>,
          <<stem + 2, IF shared THEN stem + 3 ELSE stem + 4>>}

DiamondNodes(stem, shared) == IF shared THEN stem + 4 ELSE stem + 5

\* the edges are added in the order of (source, target); the weight of an edge
\* is the name the source gives the dependency, here the target's number
RECURSIVE EdgeSeq(_, _)
EdgeSeq(n, pairs) ==
    IF pairs = {} THEN <<>>
    ELSE LET first == CHOOSE e \in pairs :
                          \A f \in pairs : e[1] * n + e[2] <= f[1] * n + f[2]
         IN  <<[source |-> first[1], target |-> first[2], weight |-> first[2]]>>
             \o EdgeSeq(n, pairs \ {first})

Publications == [original_id : OriginalIDs, published_at : Addresses]

\* What a graph can have beyond plain, unpublished packages that declare env
\* and flag no dependency: a publication of a node, a node that does not declare
\* env, an override flag on an edge, a further edge.
PackageMarks(n, pairs) ==
    {[mark |-> "published", node |-> i, info |-> info] :
        i \in 0 .. (n - 1), info \in Publications}
    \cup {[mark |-> "undeclared", node |-> i] : i \in 0 .. (n - 1)}
    \cup {[mark |-> "override", source |-> e[1], target |-> e[2]] : e \in pairs}

EdgeMarks(n, pairs) ==
    {[mark |-> "edge", source |-> e[1], target |-> e[2]] :
        e \in ((0 .. (n - 1)) \X (0 .. (n - 1))) \ pairs}

Published(marks) == {m.node : m \in {k \in marks : k.mark = "published"}}

\* a graph of n nodes with the edges `pairs`, the publications `fixed` and `marks`
Build(n, pairs, fixed, marks) ==
    LET all == pairs \cup {<<m.source, m.target>> : m \in {k \in marks : k.mark = "edge"}}
    IN
    /\ nodeCount = n
    /\ edges = EdgeSeq(n, all)
    /\ \A m1, m2 \in marks :
          (m1.mark = "published" /\ m2.mark = "published" /\ m1.node = m2.node) => m1 = m2
    /\ Published(marks) \cap DOMAIN fixed = {}
    /\ publication = [i \in 0 .. (n - 1) |->
          IF i \in DOMAIN fixed THEN fixed[i]
          ELSE IF i \in Published(marks)
          THEN (CHOOSE m \in marks : m.mark = "published" /\ m.node = i).info
          ELSE None]
    /\ declared = [i \in 0 .. (n - 1) |->
          [mark |-> "undeclared", node |-> i] \notin marks]
    /\ overrideNames = [i \in 0 .. (n - 1) |->
          {m.target : m \in {k \in marks : k.mark = "override" /\ k.source = i}}]

\* any tree of at most MaxNodes nodes with at most MaxMarks marks
InitGeneral ==
    \E n \in 1 .. MaxNodes :
    \E parent \in Trees(n) :
    \E marks \in UpTo(PackageMarks(n, TreeEdges(n, parent))
                      \cup EdgeMarks(n, TreeEdges(n, parent)), MaxMarks) :
        Build(n, TreeEdges(n, parent), EmptyTable, marks)

\* a diamond over two publications L1, L2 of the package OriginalIDOrder[1]
\* (or over one, L1), with at most MaxMarks marks on its packages
InitDiamond ==
    \E stem \in 0 .. MaxStem, shared \in BOOLEAN :
    \E addr1 \in {CHOOSE a \in Addresses : TRUE}, addr2 \in Addresses :
    \E marks \in UpTo(PackageMarks(DiamondNodes(stem, shared), DiamondEdges(stem, shared)),
                      MaxMarks) :
        Build(DiamondNodes(stem, shared), DiamondEdges(stem, shared),
              [i \in (stem + 3) .. (DiamondNodes(stem, shared) - 1) |->
                  [original_id |-> OriginalIDOrder[1],
                   published_at |-> IF i = stem + 3 THEN addr1 ELSE addr2]],
              marks)

Init ==
    /\ InitGeneral \/ InitDiamond
    /\ pc = "toposort"
    /\ sorted = <<>>
    /\ todo = 0
    /\ linkages = EmptyTable
    /\ result = NoResult
    /\ calls = 1
    /\ previous = NoResult

Spec == Init /\ [][Next]_vars

----
(* The loop of linkage as a function of the tables it reads                  *)

\* the transitive dependencies of a node
Descendants(node) == ReachedFrom({node}, {})

\* the nodes a table of `node` can name for original_id: the published
\* transitive dependencies of `node` with that OriginalID
Candidates(node, original_id) ==
    {m \in Descendants(node) :
        publication[m] # None /\ publication[m].original_id = original_id}

\* the tables over the transitive dependencies of `node`
Tables(node) ==
    {table \in UNION {[ids -> Nodes] : ids \in SUBSET OriginalIDs} :
        \A id \in DOMAIN table : table[id] \in Candidates(node, id)}

\* one table of Tables(n) for every node n of S
RECURSIVE TablesOf(_)
TablesOf(S) ==
    IF S = {} THEN {EmptyTable}
    ELSE LET n == CHOOSE m \in S : TRUE IN
         {insert(rest, n, table) : rest \in TablesOf(S \ {n}), table \in Tables(n)}

\* lines 77-80 with the loop entered at any of its iterations: the tables the
\* iteration reads, those of the neighbours of the current node, are any tables
\* over their dependencies; the other nodes after the current one have the
\* empty table.  At the position Len(sorted) no table is drawn: this is the
\* state Toposort leaves.
EnterLoop ==
    /\ pc = "toposort"
    /\ \E r \in {toposort} :
       IF r.ok
       THEN \E position \in 1 .. Len(r.order) :
            \E tables \in TablesOf(Range(neighbors(r.order[position]))) :
               /\ sorted' = r.order
               /\ todo' = position
               /\ linkages' = [n \in {r.order[k] : k \in (position + 1) .. Len(r.order)} |->
                                  IF n \in DOMAIN tables THEN tables[n] ELSE EmptyTable]
               /\ pc' = "loop"
               /\ UNCHANGED result
       ELSE /\ result' = CyclicDependencies(r.node)
            /\ pc' = "done"
            /\ UNCHANGED <<sorted, todo, linkages>>
    /\ UNCHANGED <<graph, calls, previous>>

MergeNext == EnterLoop \/ ProcessNode \/ Return

SpecMerge == Init /\ [][MergeNext]_vars

----
(* Scenarios of the properties                                               *)

\* the root package of the graph: the node added first
Root == 0

Done == pc = "done"

AllDeclared == \A n \in Nodes : declared[n]

\* the edges of `node` its manifest flags override
Flagged(node) == {e \in Range(edges) : e.source = node /\ e.weight \in overrideNames[node]}

NoOverride == \A n \in Nodes : Flagged(n) = {}

IsPublished(node) == publication[node] # None

SameOriginalID(n1, n2) ==
    /\ IsPublished(n1) /\ IsPublished(n2)
    /\ publication[n1].original_id = publication[n2].original_id

SameAddress(n1, n2) ==
    /\ IsPublished(n1) /\ IsPublished(n2)
    /\ publication[n1].published_at = publication[n2].published_at

\* root depends on A and B, A on L1 and B on L2, and these are all the edges
Diamond(A, B, L1, L2) ==
    /\ Cardinality({Root, A, B, L1, L2}) = nodeCount
    /\ A # B /\ {A, B} \cap {Root, L1, L2} = {} /\ Root \notin {L1, L2}
    /\ EdgePairs = {<<Root, A>>, <<Root, B>>, <<A, L1>>, <<B, L2>>}

\* L1 and L2 are distinct nodes with one OriginalID and different addresses
UnresolvedDiamond(A, B, L1, L2) ==
    /\ Diamond(A, B, L1, L2)
    /\ L1 # L2
    /\ SameOriginalID(L1, L2)
    /\ ~SameAddress(L1, L2)

ConflictKinds == {"InconsistentLinkage", "MultipleImplementations"}

ErrorKinds == ConflictKinds \cup {"CyclicDependencies"}

\* the loop is about to merge the table of sorted[todo]
Merging == pc = "loop" /\ todo > 0 /\ overrides(sorted[todo]).kind = "Ok"

\* the entries before entry k that have its OriginalID
Earlier(entries, k) ==
    {j \in 1 .. (k - 1) : entries[j].original_id = entries[k].original_id}

Last(S) == CHOOSE j \in S : \A i \in S : i <= j

\* entry k brings a node other than the one the entries before it brought for
\* its OriginalID
Collides(entries, k) ==
    /\ Earlier(entries, k) # {}
    /\ entries[Last(Earlier(entries, k))].pkg # entries[k].pkg

\* node overrides original_id
Overrides(node, original_id) ==
    /\ overrides(node).kind = "Ok"
    /\ original_id \in DOMAIN overrides(node).table

\* the collisions of the entries of `node` that no override of `node` covers
Unresolved(node) ==
    {k \in 1 .. Len(transitive_deps(node)) :
        /\ Collides(transitive_deps(node), k)
        /\ ~Overrides(node, transitive_deps(node)[k].original_id)}

First(S) == CHOOSE j \in S : \A i \in S : j <= i

\* the entries of `node` collide on original_id
CollidesOn(node, original_id) ==
    \E k \in 1 .. Len(transitive_deps(node)) :
        /\ Collides(transitive_deps(node), k)
        /\ transitive_deps(node)[k].original_id = original_id

\* the nodes that depend on `node`, directly or not
Ancestors(node) == {n \in Nodes : node \in ReachedFrom({n}, {})}

\* the step ends the call with a conflict error of `node`
ConflictOf(node) ==
    /\ pc' = "done"
    /\ result'.kind \in ConflictKinds
    /\ result'.root = node
    /\ UNCHANGED linkages

----
(* The properties                                                            *)

\* C1: in an unresolved diamond (root -> A -> L1, root -> B -> L2, L1 and L2
\* distinct nodes of one OriginalID with different addresses, no edge flagged
\* override) linkage returns the MultipleImplementations error.
C1_UnresolvedDiamondIsMultipleImplementations ==
    \A A, B, L1, L2 \in Nodes :
        (Done /\ AllDeclared /\ NoOverride /\ UnresolvedDiamond(A, B, L1, L2))
            => result.kind = "MultipleImplementations"

\* C2: in the unresolved diamond, when the root flags one of its direct edges
\* override and the target T of that edge has the OriginalID of L1 and L2,
\* linkage returns Ok and the table maps that OriginalID to T.
C2_OverriddenDiamondUsesOverride ==
    \A A, B, L1, L2 \in Nodes : \A T \in {A, B} :
        (/\ Done /\ AllDeclared
         /\ UnresolvedDiamond(A, B, L1, L2)
         /\ {e.target : e \in Flagged(Root)} = {T}
         /\ \A n \in Nodes \ {Root} : Flagged(n) = {}
         /\ SameOriginalID(T, L1))
            => /\ result.kind = "Ok"
               /\ publication[L1].original_id \in DOMAIN result.table
               /\ result.table[publication[L1].original_id] = T

\* C3: in a diamond whose two sides depend on the same published node L,
\* linkage returns Ok and the table has one entry for L's OriginalID, L itself.
C3_SharedDiamondLinksOnce ==
    \A A, B, L \in Nodes :
        (Done /\ AllDeclared /\ NoOverride /\ Diamond(A, B, L, L) /\ IsPublished(L))
            => /\ result.kind = "Ok"
               /\ publication[L].original_id \in DOMAIN result.table
               /\ result.table[publication[L].original_id] = L

\* C4: two distinct nodes of one OriginalID and one address reached over
\* different paths of a node that overrides nothing: InconsistentLinkage.
C4_DuplicateAddressIsInconsistentLinkage ==
    \A A, B, L1, L2 \in Nodes :
        (/\ Done /\ AllDeclared /\ NoOverride
         /\ Diamond(A, B, L1, L2)
         /\ L1 # L2
         /\ SameOriginalID(L1, L2)
         /\ SameAddress(L1, L2))
            => result.kind = "InconsistentLinkage"

\* C5: on a graph with a cycle (a self-loop included) linkage returns
\* CyclicDependencies, and it never enters the loop over the nodes: no table is
\* computed and no other error or panic is the result.
C5_CycleIsReportedBeforeAnyTable ==
    HasCycle =>
        /\ pc # "loop"
        /\ linkages = EmptyTable
        /\ Done => result.kind = "CyclicDependencies"

C5_Witness ==
    /\ Done
    /\ HasCycle
    /\ result.kind = "CyclicDependencies"
    /\ \E n \in Nodes : ~OnCycle(n) /\ ~declared[n]

\* C6: on an acyclic graph linkage returns a table (Ok): no error, no abort.
C6_AcyclicReturnsTable ==
    (Done /\ ~HasCycle) => result.kind = "Ok"

C8_LeafTableIsEmpty ==
    /\ \A n \in DOMAIN linkages : neighbors(n) = <<>> => linkages[n] = EmptyTable
    /\ (Done /\ nodeCount = 1 /\ edges = <<>>) => result = Ok(EmptyTable)

C10_UnpublishedOverrideIsAnError ==
    (/\ Done /\ AllDeclared /\ ~HasCycle
     /\ \E n \in Nodes : \E e \in Flagged(n) : ~IsPublished(e.target))
        => result.kind \in ErrorKinds

Pos(node) == CHOOSE i \in 1 .. Len(sorted) : sorted[i] = node

\* the nodes the loop has already visited
Visited == {sorted[k] : k \in (todo + 1) .. Len(sorted)}

\* C12: on an acyclic graph the nodes are visited in reverse topological order:
\* `sorted` holds every node once with each edge leading forward, the tables
\* recorded are those of the nodes after the current one, so the table of every
\* direct dependency of the current node is recorded; linkages[&n] never misses.
C12_DependenciesAreFinishedFirst ==
    /\ (~HasCycle /\ pc # "toposort") =>
          /\ Len(sorted) = nodeCount
          /\ Range(sorted) = Nodes
          /\ \A e \in Range(edges) : Pos(e.source) < Pos(e.target)
    /\ pc = "loop" => DOMAIN linkages = Visited
    /\ (pc = "loop" /\ todo > 0) =>
          Range(neighbors(sorted[todo])) \subseteq DOMAIN linkages
    /\ result.kind = "panic" => result.message # "linkages[&n]"

C12_Witness ==
    /\ pc = "loop"
    /\ todo > 0
    /\ Len(neighbors(sorted[todo])) > 1
    /\ Range(neighbors(sorted[todo])) \subseteq DOMAIN linkages
    /\ \E e \in Range(edges) : e.source > e.target

\* C13: on a non-empty acyclic graph whose nodes are all reached from the root,
\* the first node of the forward topological order is the root, the table of the
\* root is recorded when the loop ends, and the call returns Ok with that table.
C13_ReturnsTheTableOfTheRoot ==
    [][(/\ pc = "loop"
        /\ Nodes \subseteq {Root} \cup ReachedFrom({Root}, {})) =>
          /\ sorted # <<>>
          /\ sorted[1] = Root
          /\ todo = 0 =>
                /\ Root \in DOMAIN linkages
                /\ pc' = "done"
                /\ result' = Ok(linkages[Root])]_vars

C13_Witness ==
    /\ Done
    /\ nodeCount > 1
    /\ result.kind = "Ok"
    /\ result.table # EmptyTable
    /\ \E n \in DOMAIN linkages : linkages[n] # result.table

\* the result of the loop body of `node` over its first k entries
MergedUpTo(node, k) ==
    mergeEntries(node, overrides(node).table,
                 SubSeq(transitive_deps(node), 1, k), EmptyTable)

C16_EveryTableIsEmpty ==
    /\ \A n \in DOMAIN linkages : linkages[n] = EmptyTable
    /\ result.kind \notin ConflictKinds
    /\ (Done /\ ~HasCycle /\ result.kind # "panic") => result = Ok(EmptyTable)

C16_Witness ==
    /\ Done
    /\ result = Ok(EmptyTable)
    /\ \E A, B, L1, L2 \in Nodes : UnresolvedDiamond(A, B, L1, L2)

\* the edges flagged override whose target is not published in env
UnpublishedOverride(node) == {e \in Flagged(node) : ~IsPublished(e.target)}

\* C17: overrides is computed for every node before its merge and direct_deps
\* fails exactly for a manifest that does not declare env: when a node of an
\* acyclic graph does not declare env, linkage aborts; it returns no table and
\* no LinkageError.  The abort is the unwrap at a node that does not declare
\* env, unless a node visited before it aborts at the expect of line 168.
C17_UndeclaredEnvironmentAborts ==
    /\ \A n \in Nodes : direct_deps(n).ok <=> declared[n]
    /\ (Done /\ ~HasCycle /\ ~AllDeclared) =>
          /\ result.kind = "panic"
          /\ \/ /\ result.message = "direct_deps(env).unwrap()"
                /\ ~declared[result.node]
             \/ /\ result.message = "publication(env).expect(TODO)"
                /\ UnpublishedOverride(result.node) # {}
    /\ (Done /\ ~HasCycle /\ ~AllDeclared
             /\ \A n \in Nodes : UnpublishedOverride(n) = {}) =>
          result.message = "direct_deps(env).unwrap()"

C17_Witness ==
    /\ Done
    /\ ~HasCycle
    /\ nodeCount > 1
    /\ ~declared[Root]
    /\ \A n \in Nodes \ {Root} : declared[n]
    /\ NoOverride
    /\ result = Panic("direct_deps(env).unwrap()", Root)

====
